---- MODULE Spec2Model ----
(***************************************************************************)
(* Model of local_modules/roboflow_local_service.py: the Flask handlers    *)
(* health_check, analyze_image and validate_image, the call they make to   *)
(* client.run_workflow, and the parsing of what that call returns.         *)
(*                                                                         *)
(* Python values are tagged records.  Scalars share one shape              *)
(* [t, s, n]; a list is [t |-> "list", items |-> <<...>>]; a dict is       *)
(* [t |-> "dict", d |-> f] with f a function whose DOMAIN is the set of    *)
(* keys that are present.  Confidences are integers in units of 1/100000,  *)
(* so 0.7 is 70000 and 0.69999 is 69999.                                   *)
(***************************************************************************)
EXTENDS Integers, Sequences, FiniteSets, TLC

\* pc           where the handler of the current request stands
\* endpoint     the route of the current request
\* data         request.get_json()
\* image_source, result   the locals of that name
\* exception    the text of the exception the except clause caught, "" if none
\* response     what the handler returned, NoResponse before it returns
\* trace        the steps of the current request so far: "check" (the input
\*              check was passed or answered 400), "run_workflow", "parse",
\*              "respond"
VARIABLES pc, endpoint, data, image_source, result, exception, response, trace

vars == <<pc, endpoint, data, image_source, result, exception, response, trace>>

----------------------------------------------------------------------------
(* Python values *)

PyNone == [t |-> "none", s |-> "", n |-> 0]
PyStr(x) == [t |-> "str", s |-> x, n |-> 0]
PyNum(k) == [t |-> "num", s |-> "", n |-> k]
PyList(q) == [t |-> "list", items |-> q]
PyDict(f) == [t |-> "dict", d |-> f]

\* bool(x): None, "", 0, [] and {} are false, everything else is true
Truthy(x) ==
    CASE x.t = "none" -> FALSE
      [] x.t = "str"  -> x.s # ""
      [] x.t = "num"  -> x.n # 0
      [] x.t = "list" -> Len(x.items) > 0
      [] x.t = "dict" -> DOMAIN x.d # {}

\* a or b
PyOr(a, b) == IF Truthy(a) THEN a ELSE b

\* dict.get(key, default) on a dict
DictGet(x, key, default) == IF key \in DOMAIN x.d THEN x.d[key] ELSE default

\* whether "key in x" is defined: None and numbers raise TypeError
SupportsIn(x) == x.t \in {"dict", "list", "str"}

\* key in x : a key of a dict, an element of a list, a substring of a str
\* (the strings of the model contain a key only when they equal it)
PyIn(key, x) ==
    CASE x.t = "dict" -> key \in DOMAIN x.d
      [] x.t = "list" -> \E i \in 1..Len(x.items) :
                            x.items[i].t = "str" /\ x.items[i].s = key
      [] x.t = "str"  -> x.s = key


\* max(values): the first value that no later value exceeds
RECURSIVE MaxFrom(_, _, _)
MaxFrom(values, best, i) ==
    IF i > Len(values) THEN best
    ELSE MaxFrom(values, IF values[i].n > best.n THEN values[i] ELSE best, i + 1)

PyMax(values) == MaxFrom(values, values[1], 2)

\* max(values) raises TypeError as soon as two values have to be compared and
\* one of them is None
MaxRaises(values) == Len(values) > 1 /\ \E i \in 1..Len(values) : values[i].t # "num"

\* max(items, key=...): the index of the first item whose key no other exceeds
RECURSIVE MaxIndexFrom(_, _, _)
MaxIndexFrom(keys, best, i) ==
    IF i > Len(keys) THEN best
    ELSE MaxIndexFrom(keys, IF keys[i].n > keys[best].n THEN i ELSE best, i + 1)

\* a max that keeps the last of equal keys
RECURSIVE LastMaxIndexFrom(_, _, _)
LastMaxIndexFrom(keys, best, i) ==
    IF i > Len(keys) THEN best
    ELSE LastMaxIndexFrom(keys, IF keys[i].n >= keys[best].n THEN i ELSE best, i + 1)

PyMaxIndexLast(keys) == LastMaxIndexFrom(keys, 1, 2)

PyMaxIndex(keys) == MaxIndexFrom(keys, 1, 2)

----------------------------------------------------------------------------
(* Parsing of the workflow result *)

Nothing == [kind |-> "none", error |-> "", value |-> PyNone]
Found(v) == [kind |-> "found", error |-> "", value |-> v]
Raise(e) == [kind |-> "raise", error |-> e, value |-> PyNone]

\* result[0]['output2']['predictions'] behind the guards of lines 70-76
\* (validate_image repeats them at lines 127-132)
ExtractFromList(r) ==
    LET output == r.items[1] IN
      IF ~SupportsIn(output) THEN Raise("TypeError: argument is not iterable")
      ELSE IF ~PyIn("output2", output) THEN Nothing
      ELSE IF output.t # "dict" THEN Raise("TypeError: indices must be integers")
      ELSE LET output2 == output.d["output2"] IN
        IF ~SupportsIn(output2) THEN Raise("TypeError: argument is not iterable")
        ELSE IF ~PyIn("predictions", output2) THEN Nothing
        ELSE IF output2.t # "dict" THEN Raise("TypeError: indices must be integers")
        ELSE LET model_predictions == output2.d["predictions"] IN
          IF Truthy(model_predictions) THEN Found(model_predictions) ELSE Nothing

\* the guard without isinstance(result, list)
ExtractPredictionsAnyType(r) ==
    IF ~Truthy(r) THEN Nothing
    ELSE IF r.t # "list" THEN Raise("KeyError: 0")
    ELSE ExtractFromList(r)

ExtractPredictions(r) ==
    IF Truthy(r) /\ r.t = "list" /\ Len(r.items) > 0 THEN ExtractFromList(r)
    ELSE Nothing

\* pred.get('label') or pred.get('class')
NormalizedClassLabelFirst(pred) ==
    PyOr(DictGet(pred, "label", PyNone), DictGet(pred, "class", PyNone))

\* pred.get('class') or pred.get('label')
NormalizedClass(pred) ==
    PyOr(DictGet(pred, "class", PyNone), DictGet(pred, "label", PyNone))

\* pred.get('confidence', 0)
ConfidenceOf(pred) == DictGet(pred, "confidence", PyNum(0))

\* a loop that inserts at the front instead of appending
NormalizePredictionsReversed(items) ==
    [i \in 1..Len(items) |->
        [class |-> PyOr(DictGet(items[Len(items) + 1 - i], "class", PyNone),
                        DictGet(items[Len(items) + 1 - i], "label", PyNone)),
         confidence |-> DictGet(items[Len(items) + 1 - i], "confidence", PyNum(0))]]

\* the loop of lines 77-81
NormalizePredictions(items) ==
    [i \in 1..Len(items) |->
        [class |-> NormalizedClass(items[i]), confidence |-> ConfidenceOf(items[i])]]

\* the confidence of the first prediction instead of the maximum
TopConfidenceOfFirst(items) == DictGet(items[1], "confidence", PyNum(0))

\* max([p.get('confidence', 0) for p in model_predictions])
TopConfidence(items) == PyMax([i \in 1..Len(items) |-> ConfidenceOf(items[i])])

\* confidence >= threshold
threshold == 70000
AllowUploadStrict(confidence) == confidence.n > threshold
AllowUpload(confidence) == confidence.n >= threshold

\* f'Detected Issue: {detected_issue}' if detected_issue else 'No civic issue detected'
Format(v) == IF v.t = "none" THEN "None" ELSE v.s
MessageUnconditional(detected_issue) == "Detected Issue: " \o Format(detected_issue)
Message(detected_issue) ==
    IF Truthy(detected_issue) THEN "Detected Issue: " \o Format(detected_issue)
    ELSE "No civic issue detected"

----------------------------------------------------------------------------
(* Responses *)

NoResponse == [status |-> 0]

BadRequest(text) == [status |-> 400, success |-> FALSE, error |-> text]

\* the except clause of analyze_image
AnalyzeError(e) == [status |-> 500, success |-> FALSE, error |-> e]

\* an except clause that leaves confidence and allowUpload out
ValidateErrorNoReset(e) == [status |-> 500, success |-> FALSE, error |-> e]

\* the except clause of validate_image
ValidateError(e) ==
    [status |-> 500, success |-> FALSE, error |-> e,
     confidence |-> PyNum(0), allowUpload |-> FALSE]

\* the try body of analyze_image from line 67 on, run_workflow having returned r:
\* the response of line 84, or the exception raised on the way
AnalyzeTry(r) ==
    LET ex == ExtractPredictions(r) IN
    IF ex.kind = "raise" THEN ex
    ELSE IF ex.kind = "none" THEN
        Found([status |-> 200, success |-> TRUE, predictions |-> <<>>,
               confidence |-> PyNum(0), raw_result |-> r])
    ELSE LET model_predictions == ex.value IN
      IF model_predictions.t # "list" THEN Raise("TypeError: object is not iterable")
      ELSE IF \E i \in 1..Len(model_predictions.items) :
                 model_predictions.items[i].t # "dict" THEN
          Raise("AttributeError: object has no attribute 'get'")
      ELSE IF MaxRaises([i \in 1..Len(model_predictions.items) |->
                            ConfidenceOf(model_predictions.items[i])]) THEN
          Raise("TypeError: '>' not supported")
      ELSE
          Found([status |-> 200, success |-> TRUE,
                 predictions |-> NormalizePredictions(model_predictions.items),
                 confidence |-> TopConfidence(model_predictions.items),
                 raw_result |-> r])

\* the try body of validate_image from line 122 on
ValidateTry(r) ==
    LET ex == ExtractPredictions(r) IN
    IF ex.kind = "raise" THEN ex
    ELSE IF ex.kind = "none" THEN
        Found([status |-> 200, success |-> TRUE, confidence |-> PyNum(0),
               modelConfidence |-> PyNum(0), allowUpload |-> FALSE,
               message |-> Message(PyNone), detectedIssue |-> PyNone])
    ELSE LET predictions == ex.value IN
      IF predictions.t # "list" THEN Raise("TypeError: object is not iterable")
      ELSE IF \E i \in 1..Len(predictions.items) : predictions.items[i].t # "dict" THEN
          Raise("AttributeError: object has no attribute 'get'")
      ELSE LET keys == [i \in 1..Len(predictions.items) |->
                            ConfidenceOf(predictions.items[i])] IN
        IF MaxRaises(keys) THEN Raise("TypeError: '>' not supported")
        ELSE LET best_pred == predictions.items[PyMaxIndex(keys)]
                 confidence == ConfidenceOf(best_pred)
                 detected_issue == NormalizedClass(best_pred)
             IN IF confidence.t # "num" THEN Raise("TypeError: '>=' not supported")
                ELSE
                    Found([status |-> 200, success |-> TRUE, confidence |-> confidence,
                           modelConfidence |-> confidence,
                           allowUpload |-> AllowUpload(confidence),
                           message |-> Message(detected_issue),
                           detectedIssue |-> detected_issue])

----------------------------------------------------------------------------
(* Inputs: request bodies and outcomes of client.run_workflow *)

\* longest prediction list and longest bundle sequence run_workflow returns,
\* under SpecNormalizer and under Spec
MaxPreds == 2
MaxBundles == 2
FewPreds == 1
FewBundles == 1

\* marks a key that is left out of a dict; never a value of the program
Absent == [t |-> "absent", s |-> "", n |-> 0]
Opt(S) == S \cup {Absent}
Present(f) == [k \in {x \in DOMAIN f : f[x].t # "absent"} |-> f[k]]

ImageKeys == {"image_path", "image_url", "image"}
BodyVals == {PyStr(""), PyStr("img.jpg")}

\* request.get_json(): null, a JSON string, or an object holding any of the three
\* image keys and possibly another field
Bodies ==
    {PyNone, PyStr("img.jpg")} \cup
    {PyDict(Present([image_path |-> p, image_url |-> u, image |-> i, user_id |-> o])) :
        p \in Opt(BodyVals), u \in Opt(BodyVals), i \in Opt(BodyVals),
        o \in Opt({PyStr("u1")})}

OneBody == {PyDict([image_path |-> PyStr("img.jpg")])}

ClassVals == {PyStr(""), PyStr("pothole")}
LabelVals == {PyStr(""), PyStr("crack")}
ConfVals == {PyNum(69999), PyNum(70000), PyNum(82000)}

PredRecords ==
    {PyDict(Present([class |-> c, label |-> l, confidence |-> k])) :
        c \in Opt(ClassVals), l \in Opt(LabelVals), k \in Opt(ConfVals)}

\* entries of a prediction list: records, a record whose confidence is null, and
\* a bare string in place of a record
Entries ==
    PredRecords \cup
    {PyDict([class |-> PyStr("pothole"), confidence |-> PyNone]), PyStr("pothole")}

FewEntries ==
    {PyStr("pothole"),
     PyDict([class |-> PyStr("pothole"), confidence |-> PyNum(82000)]),
     PyDict([label |-> PyStr("crack"), confidence |-> PyNum(69999)]),
     PyDict([class |-> PyStr("pothole"), confidence |-> PyNone])}

SeqsUpTo(S, n) == UNION {[1..k -> S] : k \in 0..n}

Bundle(o2) == PyDict([output2 |-> o2])
WithPredictions(p) == PyDict([predictions |-> p])

\* output bundles after element 0
ExtraBundles ==
    {Bundle(WithPredictions(PyList(
        <<PyDict([class |-> PyStr("garbage"), confidence |-> PyNum(90000)])>>)))}

RawResults(entries, maxPreds, maxBundles) ==
    LET predictionsValues ==
            {PyNone, PyNum(5)} \cup {PyList(q) : q \in SeqsUpTo(entries, maxPreds)}
        output2Values ==
            {PyNone, PyStr("predictions"), PyDict([time |-> PyNum(3)])}
            \cup {WithPredictions(p) : p \in predictionsValues}
        bundles ==
            {PyNone, PyStr("output2"), PyStr("error"), PyList(<<PyStr("output2")>>),
             PyDict([output1 |-> PyNum(1)])}
            \cup {Bundle(o) : o \in output2Values}
    IN  {PyNone, PyList(<<>>), PyStr("error"), PyDict([error |-> PyStr("x")])}
        \cup {PyList(<<b>> \o rest) :
                b \in bundles, rest \in SeqsUpTo(ExtraBundles, maxBundles - 1)}

\* exceptions client.run_workflow raises
WorkflowErrors == {"ConnectionError: connection refused", "ReadTimeout: timed out"}

----------------------------------------------------------------------------
(* The handlers *)

Init ==
    /\ pc = "idle"
    /\ endpoint = "none"
    /\ data = PyNone
    /\ image_source = PyNone
    /\ result = PyNone
    /\ exception = ""
    /\ response = NoResponse
    /\ trace = <<>>

\* return jsonify(...): the handler ends with response r
Return(r, events) ==
    /\ response' = r
    /\ exception' = exception
    /\ trace' = trace \o events \o <<"respond">>
    /\ pc' = "done"

\* an exception e leaves the try body and the except clause answers
Except(e, r, events) ==
    /\ response' = r
    /\ exception' = e
    /\ trace' = trace \o events \o <<"respond">>
    /\ pc' = "done"

\* GET /health
health_check ==
    /\ pc \in {"idle", "done"}
    /\ endpoint' = "/health"
    /\ data' = PyNone
    /\ image_source' = PyNone
    /\ result' = PyNone
    /\ exception' = ""
    /\ response' = [status |-> 200, service |-> "Local Roboflow Inference"]
    /\ trace' = <<"respond">>
    /\ pc' = "done"

\* a POST arrives at route ep: data = request.get_json()
Receive(ep, bodies) ==
    /\ pc \in {"idle", "done"}
    /\ endpoint' = ep
    /\ \E body \in bodies : data' = body
    /\ image_source' = PyNone
    /\ result' = PyNone
    /\ exception' = ""
    /\ response' = NoResponse
    /\ trace' = <<>>
    /\ pc' = "check"

\* data.get('image_path') or data.get('image_url') or data.get('image')
ImageSource(body) ==
    PyOr(PyOr(DictGet(body, "image_path", PyNone), DictGet(body, "image_url", PyNone)),
         DictGet(body, "image", PyNone))

\* analyze_image, lines 39-54
analyze_check ==
    /\ pc = "check" /\ endpoint = "/analyze"
    /\ UNCHANGED <<endpoint, data, result>>
    /\ IF ~Truthy(data) THEN
           /\ image_source' = image_source
           /\ Return(BadRequest("No data provided"), <<"check">>)
       ELSE IF data.t # "dict" THEN
           /\ image_source' = image_source
           /\ Except("AttributeError: object has no attribute 'get'",
                     AnalyzeError("AttributeError: object has no attribute 'get'"), <<>>)
       ELSE IF ~Truthy(ImageSource(data)) THEN
           /\ image_source' = ImageSource(data)
           /\ Return(BadRequest("No image source provided"), <<"check">>)
       ELSE
           /\ image_source' = ImageSource(data)
           /\ UNCHANGED <<response, exception>>
           /\ trace' = Append(trace, "check")
           /\ pc' = "call"

\* validate_image, lines 104-111
validate_check ==
    /\ pc = "check" /\ endpoint = "/validate"
    /\ UNCHANGED <<endpoint, data, result>>
    /\ IF data.t # "dict" THEN
           /\ image_source' = image_source
           /\ Except("AttributeError: object has no attribute 'get'",
                     ValidateError("AttributeError: object has no attribute 'get'"), <<>>)
       ELSE IF ~Truthy(ImageSource(data)) THEN
           /\ image_source' = ImageSource(data)
           /\ Return(BadRequest("No image source provided"), <<"check">>)
       ELSE
           /\ image_source' = ImageSource(data)
           /\ UNCHANGED <<response, exception>>
           /\ trace' = Append(trace, "check")
           /\ pc' = "call"

\* analyze_image, lines 57-64: client.run_workflow returns a result or raises
analyze_call(raws) ==
    /\ pc = "call" /\ endpoint = "/analyze"
    /\ UNCHANGED <<endpoint, data, image_source>>
    /\ \/ \E r \in raws :
             /\ result' = r
             /\ UNCHANGED <<response, exception>>
             /\ trace' = Append(trace, "run_workflow")
             /\ pc' = "parse"
       \/ \E e \in WorkflowErrors :
             /\ result' = result
             /\ Except(e, AnalyzeError(e), <<"run_workflow">>)

\* a call that is tried a second time when it fails
validate_call_retry(raws) ==
    /\ pc = "call" /\ endpoint = "/validate"
    /\ UNCHANGED <<endpoint, data, image_source>>
    /\ \/ \E r \in raws :
             /\ result' = r
             /\ UNCHANGED <<response, exception>>
             /\ trace' = Append(trace, "run_workflow")
             /\ pc' = "parse"
       \/ \E e \in WorkflowErrors :
             /\ result' = result
             /\ Except(e, ValidateError(e), <<"run_workflow", "run_workflow">>)

\* validate_image, lines 114-119
validate_call(raws) ==
    /\ pc = "call" /\ endpoint = "/validate"
    /\ UNCHANGED <<endpoint, data, image_source>>
    /\ \/ \E r \in raws :
             /\ result' = r
             /\ UNCHANGED <<response, exception>>
             /\ trace' = Append(trace, "run_workflow")
             /\ pc' = "parse"
       \/ \E e \in WorkflowErrors :
             /\ result' = result
             /\ Except(e, ValidateError(e), <<"run_workflow">>)

\* analyze_image, lines 67-95
analyze_respond ==
    /\ pc = "parse" /\ endpoint = "/analyze"
    /\ UNCHANGED <<endpoint, data, image_source, result>>
    /\ LET out == AnalyzeTry(result) IN
         IF out.kind = "raise" THEN Except(out.error, AnalyzeError(out.error), <<"parse">>)
         ELSE Return(out.value, <<"parse">>)

\* validate_image, lines 122-154
validate_respond ==
    /\ pc = "parse" /\ endpoint = "/validate"
    /\ UNCHANGED <<endpoint, data, image_source, result>>
    /\ LET out == ValidateTry(result) IN
         IF out.kind = "raise" THEN Except(out.error, ValidateError(out.error), <<"parse">>)
         ELSE Return(out.value, <<"parse">>)

Next ==
    \/ health_check
    \/ Receive("/validate", Bodies)
    \/ Receive("/analyze", Bodies)
    \/ analyze_check
    \/ validate_check
    \/ analyze_call(RawResults(FewEntries, FewPreds, FewBundles))
    \/ validate_call(RawResults(FewEntries, FewPreds, FewBundles))
    \/ analyze_respond
    \/ validate_respond

Spec == Init /\ [][Next]_vars

\* the same handlers, one request body, every shape of workflow result
NextNormalizer ==
    \/ health_check
    \/ Receive("/validate", OneBody)
    \/ Receive("/analyze", OneBody)
    \/ analyze_check
    \/ validate_check
    \/ analyze_call(RawResults(Entries, MaxPreds, MaxBundles))
    \/ validate_call(RawResults(Entries, MaxPreds, MaxBundles))
    \/ analyze_respond
    \/ validate_respond

SpecNormalizer == Init /\ [][NextNormalizer]_vars

----------------------------------------------------------------------------
(* Vocabulary of the properties *)

Handlers == {"/analyze", "/validate"}

\* the handler of endpoint ep has answered with status st
Answered(ep, st) == pc = "done" /\ endpoint = ep /\ response.status = st

\* run_workflow returned `result` and the handler has answered
Parsed == pc = "done" /\ endpoint \in Handlers /\ "parse" \in {trace[i] : i \in DOMAIN trace}

Count(ev) == Cardinality({i \in DOMAIN trace : trace[i] = ev})

HasKey(x, key) == x.t = "dict" /\ key \in DOMAIN x.d

\* r[0]['output2']['predictions'] exists and is a list
HasList(r) ==
    /\ r.t = "list" /\ Len(r.items) > 0
    /\ HasKey(r.items[1], "output2")
    /\ HasKey(r.items[1].d["output2"], "predictions")
    /\ r.items[1].d["output2"].d["predictions"].t = "list"

\* the prediction list of element 0, empty when there is none
Element0List(r) ==
    IF HasList(r) THEN r.items[1].d["output2"].d["predictions"].items ELSE <<>>

\* the confidence of a raw record, 0 when the field is absent
RawConfidence(p) == IF HasKey(p, "confidence") THEN p.d["confidence"] ELSE PyNum(0)

\* the index of the first record of L whose confidence is the maximum
FirstMaximum(L) ==
    CHOOSE i \in 1..Len(L) :
        /\ \A j \in 1..Len(L) : RawConfidence(L[j]).n <= RawConfidence(L[i]).n
        /\ \A j \in 1..(i - 1) : RawConfidence(L[j]).n < RawConfidence(L[i]).n

\* the class of a raw record as the code derives it: `class` when present and
\* non-empty, else `label` when present, else null
DerivedClass(p) ==
    IF HasKey(p, "class") /\ Truthy(p.d["class"]) THEN p.d["class"]
    ELSE IF HasKey(p, "label") THEN p.d["label"]
    ELSE PyNone

\* the class of a raw record as the specification words it: `class` when present,
\* whatever its value
StatedClass(p) ==
    IF HasKey(p, "class") THEN p.d["class"]
    ELSE IF HasKey(p, "label") THEN p.d["label"]
    ELSE PyNone

EmptyDetection ==
    /\ response.status = 200
    /\ response.confidence = PyNum(0)
    /\ endpoint = "/analyze" => response.predictions = <<>>
    /\ endpoint = "/validate" =>
          /\ response.allowUpload = FALSE
          /\ response.detectedIssue = PyNone

----------------------------------------------------------------------------
(* C1 *)

\* C1: whenever /validate answers 200, allowUpload is true exactly when the
\* prediction list of element 0 is non-empty and its maximum confidence is at
\* least 0.7 (70000 in the model's unit)
C1_AllowUploadIffThreshold ==
    Answered("/validate", 200) =>
        LET L == Element0List(result) IN
        response.allowUpload <=>
            (L # <<>> /\ RawConfidence(L[FirstMaximum(L)]).n >= 70000)

\* a maximum of exactly 0.7, next to a lower confidence, was admitted
C1_Witness ==
    /\ Answered("/validate", 200)
    /\ Len(Element0List(result)) = 2
    /\ RawConfidence(Element0List(result)[1]).n = 69999
    /\ RawConfidence(Element0List(result)[2]).n = 70000
    /\ response.allowUpload = TRUE

----------------------------------------------------------------------------
(* C2 *)

NoList(r) == r.t # "list" \/ Len(r.items) = 0

\* x can be searched for key and does not hold it
LacksKey(x, key) ==
    \/ x.t = "dict" /\ key \notin DOMAIN x.d
    \/ x.t = "str" /\ x.s # key
    \/ x.t = "list" /\ \A i \in 1..Len(x.items) :
                          ~(x.items[i].t = "str" /\ x.items[i].s = key)

\* x is no dict, and looking key up in it fails or finds something to index
Unsearchable(x, key) ==
    \/ x.t \in {"none", "num"}
    \/ x.t \in {"str", "list"} /\ ~LacksKey(x, key)

\* absent, empty, not a list, or a nesting in which an expected key is missing
\* or the prediction list is empty
Lacking(r) ==
    \/ NoList(r)
    \/ /\ ~NoList(r)
       /\ \/ LacksKey(r.items[1], "output2")
          \/ /\ HasKey(r.items[1], "output2")
             /\ \/ LacksKey(r.items[1].d["output2"], "predictions")
                \/ /\ HasKey(r.items[1].d["output2"], "predictions")
                   /\ ~Truthy(r.items[1].d["output2"].d["predictions"])

\* a nesting of the wrong types: element 0 or output2 is no dict although the
\* key is looked up in it, predictions is a non-empty non-list, or an entry of
\* the prediction list is no record
WrongTypes(r) ==
    /\ ~NoList(r)
    /\ \/ Unsearchable(r.items[1], "output2")
       \/ /\ HasKey(r.items[1], "output2")
          /\ \/ Unsearchable(r.items[1].d["output2"], "predictions")
             \/ /\ HasKey(r.items[1].d["output2"], "predictions")
                /\ LET p == r.items[1].d["output2"].d["predictions"] IN
                     /\ Truthy(p)
                     /\ \/ p.t # "list"
                        \/ \E i \in 1..Len(p.items) : p.items[i].t # "dict"

\* C2 as stated: every absent, empty or malformed workflow result, whatever the
\* types found in it, is answered 200 with an empty detection
C2_AnyMalformedGivesEmptyDetection ==
    (Parsed /\ (Lacking(result) \/ WrongTypes(result))) => EmptyDetection

\* C2 as amended: a result that is absent, empty, not a list, or in which
\* output2 or predictions is missing or the prediction list is empty is answered
\* 200 with an empty detection and raises nothing; a result with the wrong types
\* in the nesting raises in the handler and is answered 500
C2_MissingKeysGiveEmptyDetection ==
    Parsed =>
        /\ Lacking(result) => (EmptyDetection /\ exception = "")
        /\ WrongTypes(result) =>
              (response.status = 500 /\ response.success = FALSE /\ exception # "")

\* /validate answered a result whose output2 holds no predictions key
C2_Witness ==
    /\ Parsed /\ endpoint = "/validate"
    /\ ~NoList(result)
    /\ HasKey(result.items[1], "output2")
    /\ LacksKey(result.items[1].d["output2"], "predictions")
    /\ EmptyDetection

----------------------------------------------------------------------------
(* C3, C4, C10: the request life cycle *)

\* a body in which one of image_path, image_url, image holds a non-empty value
CarriesSource(body) ==
    /\ body.t = "dict"
    /\ \E k \in ImageKeys : k \in DOMAIN body.d /\ Truthy(body.d[k])

\* JSON null, or an object in which none of the three keys holds a value
NoImageSource(body) ==
    \/ body.t = "none"
    \/ body.t = "dict" /\ ~CarriesSource(body)

\* C3 as stated: on both endpoints a body without an image source, JSON null and
\* the empty object included, is answered 400 "No image source provided"
C3_MissingImageSourceIs400 ==
    (pc = "done" /\ endpoint \in Handlers /\ NoImageSource(data)) =>
        response = [status |-> 400, success |-> FALSE,
                    error |-> "No image source provided"]

\* C4: an exception raised by run_workflow or while parsing its result ends in
\* exactly one response, status 500 with success false and the exception's text;
\* on /validate that response carries confidence 0 and allowUpload false; no
\* response other than a 200 carries allowUpload true
C4_ExceptionsAnswered500 ==
    /\ pc # "done" => exception = ""
    /\ (pc = "done" /\ endpoint \in Handlers) =>
          /\ Count("respond") = 1
          /\ response.status \in {200, 400, 500}
          /\ exception # "" <=> response.status = 500
          /\ response.status = 500 =>
                /\ response.success = FALSE
                /\ response.error = exception
                /\ endpoint = "/validate" =>
                      /\ {"confidence", "allowUpload"} \subseteq DOMAIN response
                      /\ response.confidence = PyNum(0)
                      /\ response.allowUpload = FALSE
          /\ response.status # 200 =>
                ~("allowUpload" \in DOMAIN response /\ response.allowUpload = TRUE)

\* /validate answered 500 for an exception raised while parsing the result
C4_Witness ==
    /\ Answered("/validate", 500)
    /\ trace = <<"check", "run_workflow", "parse", "respond">>
    /\ exception # ""
    /\ response.allowUpload = FALSE

\* C10: run_workflow is invoked at most once per request, only after the input
\* check has found an image source and before the response; never when the
\* answer is 400; exactly once when the request carries an image source, also
\* when the call fails; every request ends with a single response
C10_WorkflowInvokedOnceAfterCheck ==
    /\ Count("run_workflow") <= 1
    /\ \A i \in DOMAIN trace :
          trace[i] = "run_workflow" =>
              /\ \E j \in 1..(i - 1) : trace[j] = "check"
              /\ \A j \in 1..(i - 1) : trace[j] # "respond"
              /\ Truthy(image_source)
    /\ (pc = "done" /\ endpoint \in Handlers) =>
          /\ Count("respond") = 1
          /\ trace[Len(trace)] = "respond"
          /\ response.status = 400 => Count("run_workflow") = 0
          /\ CarriesSource(data) => Count("run_workflow") = 1

\* a request with an image source whose one call to run_workflow failed
C10_Witness ==
    /\ Answered("/analyze", 500)
    /\ CarriesSource(data)
    /\ trace = <<"check", "run_workflow", "respond">>

----------------------------------------------------------------------------
(* C5 - C9: the normalizer and the decision *)

\* C5 as stated: the 200 answer of /validate names the issue whenever the
\* prediction list is non-empty, also when detectedIssue is null, and says
\* "No civic issue detected" exactly when the list is empty
C5_MessageNamesEveryDetection ==
    Answered("/validate", 200) =>
        LET L == Element0List(result) IN
        /\ L # <<>> =>
              response.message = "Detected Issue: " \o Format(response.detectedIssue)
        /\ response.message = "No civic issue detected" <=> L = <<>>

\* C5 as amended: the message names the issue exactly when detectedIssue is a
\* non-empty string; it is "No civic issue detected" when the prediction list is
\* empty and also when the selected record yields a null or empty detectedIssue
C5_MessageFollowsDetectedIssue ==
    Answered("/validate", 200) =>
        /\ Truthy(response.detectedIssue) =>
              response.message = "Detected Issue: " \o response.detectedIssue.s
        /\ ~Truthy(response.detectedIssue) =>
              response.message = "No civic issue detected"
        /\ Element0List(result) = <<>> =>
              response.message = "No civic issue detected"

\* an admitted detection without class or label is reported as no issue
C5_Witness ==
    /\ Answered("/validate", 200)
    /\ Element0List(result) # <<>>
    /\ response.allowUpload = TRUE
    /\ response.detectedIssue = PyNone
    /\ response.message = "No civic issue detected"

\* the prediction list a bundle holds, empty when it holds none
BundleList(b) ==
    IF /\ HasKey(b, "output2")
       /\ HasKey(b.d["output2"], "predictions")
       /\ b.d["output2"].d["predictions"].t = "list"
    THEN b.d["output2"].d["predictions"].items
    ELSE <<>>

\* a sequence of output bundles, each a dict that may hold output2.predictions,
\* a list of records whose confidence, when present, is a number
WellFormed(r) ==
    /\ r.t = "list" /\ Len(r.items) > 0
    /\ \A k \in 1..Len(r.items) :
          LET b == r.items[k] IN
          /\ b.t = "dict"
          /\ HasKey(b, "output2") =>
                /\ b.d["output2"].t = "dict"
                /\ HasKey(b.d["output2"], "predictions") =>
                      b.d["output2"].d["predictions"].t = "list"
          /\ \A i \in 1..Len(BundleList(b)) :
                /\ BundleList(b)[i].t = "dict"
                /\ RawConfidence(BundleList(b)[i]).t = "num"

\* the records of all bundles, in order
RECURSIVE RecordsFrom(_, _)
RecordsFrom(r, k) ==
    IF k > Len(r.items) THEN <<>>
    ELSE BundleList(r.items[k]) \o RecordsFrom(r, k + 1)

AllRecords(r) == RecordsFrom(r, 1)

\* prediction p is derived from raw record q
DerivedFrom(p, q) ==
    /\ p.confidence = RawConfidence(q)
    /\ p.class \in {PyNone} \cup {q.d[k] : k \in {"class", "label"} \cap DOMAIN q.d}

\* C6 as stated: /analyze returns one prediction per record of all the output
\* bundles together, in source order
C6_AllBundlesRecordsKept ==
    (Parsed /\ endpoint = "/analyze" /\ WellFormed(result)) =>
        /\ response.status = 200
        /\ Len(response.predictions) = Len(AllRecords(result))
        /\ \A i \in 1..Len(AllRecords(result)) :
              DerivedFrom(response.predictions[i], AllRecords(result)[i])

\* C6 as amended: /analyze returns one prediction per record of element 0's
\* output2.predictions, the i-th from the i-th record; later bundles are not read
C6_Element0RecordsKeptInOrder ==
    (Parsed /\ endpoint = "/analyze" /\ WellFormed(result)) =>
        /\ response.status = 200
        /\ Len(response.predictions) = Len(Element0List(result))
        /\ \A i \in 1..Len(Element0List(result)) :
              DerivedFrom(response.predictions[i], Element0List(result)[i])

\* two records of different confidence in element 0, a second bundle behind it
C6_Witness ==
    /\ Answered("/analyze", 200)
    /\ WellFormed(result)
    /\ Len(result.items) = 2
    /\ Len(AllRecords(result)) = 3
    /\ Len(response.predictions) = 2
    /\ response.predictions[1].confidence # response.predictions[2].confidence

\* C7 as stated: class is the value of `class` whenever that field is present,
\* the empty string included, else `label`, else null; confidence is the field
\* or 0; detectedIssue follows the same rule on the selected record
C7_ClassFieldWinsWhenPresent ==
    /\ Answered("/analyze", 200) =>
          LET L == Element0List(result) IN
          /\ Len(response.predictions) = Len(L)
          /\ \A i \in 1..Len(L) :
                /\ response.predictions[i].class = StatedClass(L[i])
                /\ response.predictions[i].confidence = RawConfidence(L[i])
    /\ (Answered("/validate", 200) /\ Element0List(result) # <<>>) =>
          LET L == Element0List(result) IN
          response.detectedIssue = StatedClass(L[FirstMaximum(L)])

\* C7 as amended: class is the value of `class` when that field is present and
\* non-empty, else the value of `label` when present, else null
C7_ClassFallsBackWhenEmpty ==
    /\ Answered("/analyze", 200) =>
          LET L == Element0List(result) IN
          /\ Len(response.predictions) = Len(L)
          /\ \A i \in 1..Len(L) :
                /\ response.predictions[i].class = DerivedClass(L[i])
                /\ response.predictions[i].confidence = RawConfidence(L[i])
    /\ (Answered("/validate", 200) /\ Element0List(result) # <<>>) =>
          LET L == Element0List(result) IN
          response.detectedIssue = DerivedClass(L[FirstMaximum(L)])

\* a record with an empty class and a label is reported under its label
C7_Witness ==
    /\ Answered("/analyze", 200)
    /\ Len(Element0List(result)) = 1
    /\ HasKey(Element0List(result)[1], "class")
    /\ Element0List(result)[1].d["class"] = PyStr("")
    /\ response.predictions[1].class = PyStr("crack")

\* C8: the confidence of a 200 answer of /analyze is the maximum confidence of
\* the predictions of that answer, 0 when there are none
C8_ConfidenceIsMaximumOfPredictions ==
    Answered("/analyze", 200) =>
        LET P == response.predictions IN
        IF Len(P) = 0 THEN response.confidence = PyNum(0)
        ELSE /\ \E i \in 1..Len(P) : response.confidence = P[i].confidence
             /\ \A j \in 1..Len(P) : P[j].confidence.n <= response.confidence.n

\* the maximum is the second of two predictions
C8_Witness ==
    /\ Answered("/analyze", 200)
    /\ Len(response.predictions) = 2
    /\ response.predictions[1].confidence.n < response.predictions[2].confidence.n
    /\ response.confidence = response.predictions[2].confidence

\* C9: /validate reports the confidence and the issue of one record, the first
\* of those with the maximum confidence
C9_FirstMaximumSelected ==
    (Answered("/validate", 200) /\ Element0List(result) # <<>>) =>
        LET best == Element0List(result)[FirstMaximum(Element0List(result))] IN
        /\ response.confidence = RawConfidence(best)
        /\ response.modelConfidence = RawConfidence(best)
        /\ response.detectedIssue = DerivedClass(best)

\* two records tie on the maximum and the first one is reported
C9_Witness ==
    /\ Answered("/validate", 200)
    /\ Len(Element0List(result)) = 2
    /\ RawConfidence(Element0List(result)[1]) = RawConfidence(Element0List(result)[2])
    /\ DerivedClass(Element0List(result)[1]) # DerivedClass(Element0List(result)[2])
    /\ response.detectedIssue = DerivedClass(Element0List(result)[1])

====
